---- MODULE Spec2Model ----
(***************************************************************************)
(* Model of the BrainMatch analytics bridge:                               *)
(*   src/js-analytics-bridge/src/AnalyticsManager.js  (the report store    *)
(*   and the delivery dispatcher inside submitReport)                      *)
(*   src/analytics-integration.js                     (the event hooks)    *)
(*                                                                         *)
(* The store is a singleton (constructor, lines 5-34), so the model holds  *)
(* one store.  JavaScript runs every handler to completion, so each        *)
(* public method and each event handler is one atomic action.              *)
(*                                                                         *)
(* Modelling conventions                                                   *)
(*   - JS strings are TLA+ strings, '' is "".                              *)
(*   - perLevelAnalytics ({} keyed by levelId) is a function whose DOMAIN  *)
(*     is the set of keys present.  Level ids are ordinary identifiers     *)
(*     (not names inherited from Object.prototype).                        *)
(*   - new Date() is an input of the call that reads it: any reading in    *)
(*     Clock (the wall clock is not monotonic).                            *)
(*   - variables prefixed h are history variables: they record the calls   *)
(*     that were made, are never read by the modelled code, and are what   *)
(*     the properties compare the store against.                           *)
(***************************************************************************)
EXTENDS Integers, Sequences, FiniteSets, TLC

VARIABLES
    isInitialized,  \* this._isInitialized
    ident,          \* this._gameId, this._sessionName, this._sessionId
    reportData,     \* this._reportData
    returned,       \* return value of the latest public call: <<>> is undefined
    window,         \* typeof window !== 'undefined': a delivery environment
    channels,       \* the delivery channels the host offers
    storage,        \* localStorage[LS_KEY] parsed: the pending queue (<<>>: no key)
    listeners,      \* handlers attached per window event, by addEventListener
    timers,         \* pending setTimeout(flushPending, 2000) callbacks
    parentOrigin,   \* window.__GodotAnalyticsParentOrigin ("" is undefined)
    dispatch,       \* the window event being dispatched, and its handlers left to run
    sendLog,        \* the channel calls made by the latest handler run
    held,           \* the structures getReportData returned, as the caller holds them
    hook,           \* the event-hook layer: its tracking variables, the game state it
                    \* reads, its polling callbacks and the callback that is running
    hTimeout,       \* history: the reports made since the game timer last ran out
    hWatch,         \* history: what is recorded on top of the calls every property names
    hReceived,      \* history: the payloads the channels were handed, when watched
    hInit,          \* history: initialize has been called
    hLevel,         \* history: per level id, the calls made for it
    hShake,         \* history: parentOrigin of the latest handshake ("" is none)
    hLast           \* history: the latest call, when it is one a property names

storeVars == <<isInitialized, ident, reportData, returned>>
hookVars == <<hook, hTimeout>>
callerVars == <<held, hWatch, hookVars>>
deliveryVars ==
    <<window, channels, storage, listeners, timers, parentOrigin, dispatch, sendLog>>
vars ==
    <<storeVars, deliveryVars, callerVars, hReceived, hInit, hLevel, hShake, hLast>>

(***************************************************************************)
(* Bounds of the exploration                                               *)
(***************************************************************************)
MaxLevels == 2      \* Level Entries per session
MaxTasks == 2       \* Task Entries per session
MaxEnds == 2        \* effective endLevel calls per session
MaxRaw == 1         \* raw metrics per session
MaxSubmits == 2     \* submitReport calls in a delivery environment
MaxHeld == 2        \* structures returned by getReportData that the caller keeps
MaxTimers == 2      \* startTimer invocations of the game

(***************************************************************************)
(* Input domains                                                           *)
(***************************************************************************)
\* analytics-integration.js:67 builds campaign ids this way
CampaignId(n) == "campaign_level_" \o ToString(n)

CampaignNums == {0, 1, 2}
CampaignIds == { CampaignId(n) : n \in CampaignNums }
AllLevelIds == CampaignIds \cup {"reflex_mode"}
LevelIds == {CampaignId(1), "reflex_mode"}
GameIds == {"BrainMatch_Flags"}
SessionIds == {"session_a", "session_b"}
Times == {1, 2}
Clock == {0, 1}
XpValues == {-1, 1}
MetricKeys == {"turns"}
MetricValues == {8}
TaskArgs ==
    [taskId : {"task_1"}, question : {"Match: cat"}, correctChoice : {"cat"},
     choiceMade : {"cat", "dog"}, timeMs : {0}, xp : {0}]

\* Number.POSITIVE_INFINITY, as an integer above every modelled time
Infinity == 2147483647
\* what JSON.stringify writes for a non-finite number (null), as a number
JsonNull == -2147483647

(***************************************************************************)
(* Pure helpers of the store                                               *)
(***************************************************************************)
\* new Date().toISOString(): an injective rendering of the clock reading
ToISOString(t) == "T" \o ToString(t)

\* String(value) in addRawMetric
String(v) == ToString(v)

\* Math.round(a / b) for a >= 0, b > 0: round half up
RoundDiv(a, b) == (2 * a + b) \div (2 * b)

\* levelId.match(/campaign_level_(\d+)/) followed by parseInt(m[1], 10):
\* <<N>> on a match, <<>> (null) otherwise, over the ids the model uses
CampaignMatch(s) ==
    IF \E n \in CampaignNums : s = CampaignId(n)
    THEN << CHOOSE n \in CampaignNums : s = CampaignId(n) >>
    ELSE << >>

\* the object literal of the constructor
EmptyReport ==
    [gameId |-> "", sessionId |-> "", timestamp |-> "", name |-> "",
     xpEarnedTotal |-> 0, xpEarned |-> 0, xpTotal |-> 0, bestXp |-> 0,
     lastPlayedLevel |-> "", highestLevelPlayed |-> "",
     perLevelAnalytics |-> << >>, rawData |-> << >>,
     diagnostics |-> [levels |-> << >>]]

\* forward scan: the first entry with the id (mutation of _getLevelById)
GetLevelByIdFirst(levels, levelId) ==
    IF \E i \in 1..Len(levels) : levels[i].levelId = levelId
    THEN CHOOSE i \in 1..Len(levels) :
            /\ levels[i].levelId = levelId
            /\ \A j \in 1..(i - 1) : levels[j].levelId # levelId
    ELSE 0

\* a lookup that falls back to the newest entry when no id matches (mutation)
GetLevelByIdOrLast(levels, levelId) ==
    IF \E i \in 1..Len(levels) : levels[i].levelId = levelId
    THEN CHOOSE i \in 1..Len(levels) :
            /\ levels[i].levelId = levelId
            /\ \A j \in (i + 1)..Len(levels) : levels[j].levelId # levelId
    ELSE Len(levels)

RECURSIVE ScanBack(_, _, _)
ScanBack(levels, levelId, i) ==
    IF i = 0 THEN 0
    ELSE IF levels[i].levelId = levelId THEN i
    ELSE ScanBack(levels, levelId, i - 1)

\* _getLevelById: index of the entry found, 0 for null
GetLevelById(levels, levelId) == ScanBack(levels, levelId, Len(levels))

\* JSON.parse(JSON.stringify(x)) of one perLevelAnalytics value
JsonStats(st) ==
    [st EXCEPT !.bestTimeMs = IF @ = Infinity THEN JsonNull ELSE @]

\* JSON.parse(JSON.stringify(this._reportData)): a deep copy in which a
\* non-finite number becomes null; strings, finite numbers, booleans, arrays
\* and plain objects are kept
JsonClone(rd) ==
    [rd EXCEPT !.perLevelAnalytics =
        [k \in DOMAIN rd.perLevelAnalytics |-> JsonStats(rd.perLevelAnalytics[k])]]

(***************************************************************************)
(* Initial state: the constructor                                          *)
(***************************************************************************)
NoLevelHistory ==
    [started |-> FALSE, tasks |-> << >>, ended |-> FALSE,
     endSuccessful |-> FALSE, endTime |-> 0, endXp |-> 0,
     ends |-> 0, times |-> {}]

HistoryEmpty == [l \in AllLevelIds |-> NoLevelHistory]

Op(name, args) == [op |-> name, args |-> args]

\* the four mutation operations of the store
MutationOps == {"addRawMetric", "startLevel", "recordTask", "endLevel"}

\* a store fresh from the constructor, whose history also records what is in
\* watch: calls of mutation operations by name, the channels' deliveries
\* the event-hook layer before the integration script has run: the tracking
\* variables of lines 30-33 (null is "" or 0), the fields of window.gameState
\* the hooks read (timeRemaining -1: not set), the polling callbacks alive
\* (setInterval, line 293) and the store calls the running callback has
\* still to make
HookIdle ==
    [installed |-> FALSE,
     currentGameMode |-> "", currentLevelId |-> "", levelStartTime |-> 0,
     taskCounter |-> 0,
     gameState |-> [currentCampaignLevel |-> 0, timeRemaining |-> -1,
                    timerId |-> 0, turns |-> 0],
     startTimers |-> 0,
     checkIntervals |-> 0,
     running |-> << >>]

NoTimeout == [timeouts |-> 0, ends |-> 0, submits |-> 0]

StoreStart(watch) ==
    /\ isInitialized = FALSE
    /\ ident = [gameId |-> "", sessionName |-> "", sessionId |-> ""]
    /\ reportData = EmptyReport
    /\ returned = << >>
    /\ held = << >>
    /\ hook = HookIdle
    /\ hTimeout = NoTimeout
    /\ hWatch = watch
    /\ hReceived = << >>
    /\ hInit = FALSE
    /\ hLevel = HistoryEmpty
    /\ hLast = Op("constructor", << >>)

StoreInit == StoreStart({})

(***************************************************************************)
(* The public methods of the store                                         *)
(***************************************************************************)
\* initialize that forgets to clear the raw metrics (mutation)
initializeKeepsRaw(gameId, sessionName, now) ==
    /\ ident' = [gameId |-> gameId, sessionName |-> sessionName,
                 sessionId |-> sessionName]
    /\ reportData' =
         [reportData EXCEPT
            !.gameId = gameId, !.sessionId = sessionName,
            !.timestamp = ToISOString(now), !.name = sessionName,
            !.diagnostics.levels = << >>,
            !.xpEarnedTotal = 0, !.xpEarned = 0, !.xpTotal = 0, !.bestXp = 0,
            !.lastPlayedLevel = "", !.highestLevelPlayed = "",
            !.perLevelAnalytics = << >>]
    /\ isInitialized' = TRUE
    /\ returned' = << >>

initialize(gameId, sessionName, now) ==
    /\ ident' = [gameId |-> gameId, sessionName |-> sessionName,
                 sessionId |-> sessionName]
    /\ reportData' =
         [reportData EXCEPT
            !.gameId = gameId, !.sessionId = sessionName,
            !.timestamp = ToISOString(now), !.name = sessionName,
            !.diagnostics.levels = << >>, !.rawData = << >>,
            !.xpEarnedTotal = 0, !.xpEarned = 0, !.xpTotal = 0, !.bestXp = 0,
            !.lastPlayedLevel = "", !.highestLevelPlayed = "",
            !.perLevelAnalytics = << >>]
    /\ isInitialized' = TRUE
    /\ returned' = << >>

addRawMetric(key, value) ==
    /\ IF ~isInitialized
       THEN UNCHANGED reportData
       ELSE reportData' =
              [reportData EXCEPT
                 !.rawData = Append(@, [key |-> key, value |-> String(value)])]
    /\ returned' = << >>
    /\ UNCHANGED <<isInitialized, ident>>

startLevel(levelId) ==
    /\ IF ~isInitialized
       THEN UNCHANGED reportData
       ELSE LET levelEntry ==
                  [levelId |-> levelId, successful |-> FALSE, timeTaken |-> 0,
                   timeDirection |-> FALSE, xpEarned |-> 0, tasks |-> << >>]
            IN reportData' =
                 [reportData EXCEPT !.diagnostics.levels = Append(@, levelEntry)]
    /\ returned' = << >>
    /\ UNCHANGED <<isInitialized, ident>>

\* the stats object created on a level's first endLevel (lines 130-138)
NewStats ==
    [attempts |-> 0, wins |-> 0, losses |-> 0, totalTimeMs |-> 0,
     bestTimeMs |-> Infinity, totalXp |-> 0, averageTimeMs |-> 0]

\* the update with bestTimeMs overwritten by every attempt (mutation)
UpdateStatsLastTime(stats, successful, timeTakenMs, xp) ==
    LET attempts == stats.attempts + 1
        totalTimeMs == stats.totalTimeMs + timeTakenMs
    IN [attempts |-> attempts,
        wins |-> stats.wins + (IF successful THEN 1 ELSE 0),
        losses |-> stats.losses + (IF successful THEN 0 ELSE 1),
        totalTimeMs |-> totalTimeMs,
        bestTimeMs |-> timeTakenMs,
        totalXp |-> stats.totalXp + xp,
        averageTimeMs |-> RoundDiv(totalTimeMs, attempts)]

\* lines 141-152: the update of one level's aggregate stats
UpdateStats(stats, successful, timeTakenMs, xp) ==
    LET attempts == stats.attempts + 1
        totalTimeMs == stats.totalTimeMs + timeTakenMs
    IN [attempts |-> attempts,
        wins |-> stats.wins + (IF successful THEN 1 ELSE 0),
        losses |-> stats.losses + (IF successful THEN 0 ELSE 1),
        totalTimeMs |-> totalTimeMs,
        bestTimeMs |-> IF timeTakenMs < stats.bestTimeMs
                       THEN timeTakenMs ELSE stats.bestTimeMs,
        totalXp |-> stats.totalXp + xp,
        averageTimeMs |-> RoundDiv(totalTimeMs, attempts)]

\* lines 157-170: the new value of highestLevelPlayed
UpdateHighest(highest, levelId) ==
    LET levelMatch == CampaignMatch(levelId)
        currentHighest == CampaignMatch(highest)
        currentHighestNum == IF currentHighest # << >> THEN currentHighest[1] ELSE 0
    IN IF levelMatch # << >>
       THEN IF levelMatch[1] > currentHighestNum THEN levelId ELSE highest
       ELSE IF highest = "" THEN levelId ELSE highest

\* endLevel whose bestXp is the best single-level XP (mutation)
endLevelBestXp(levelId, successful, timeTakenMs, xp) ==
    /\ LET levels == reportData.diagnostics.levels
           i == GetLevelById(levels, levelId)
       IN IF i = 0
          THEN UNCHANGED reportData
          ELSE LET pla == reportData.perLevelAnalytics
                   old == IF levelId \in DOMAIN pla THEN pla[levelId] ELSE NewStats
                   stats == UpdateStats(old, successful, timeTakenMs, xp)
                   total == reportData.xpEarnedTotal + xp
               IN reportData' =
                    [reportData EXCEPT
                       !.diagnostics.levels[i].successful = successful,
                       !.diagnostics.levels[i].timeTaken = timeTakenMs,
                       !.diagnostics.levels[i].xpEarned = xp,
                       !.xpEarnedTotal = total, !.xpEarned = total,
                       !.xpTotal = total,
                       !.bestXp = IF xp > @ THEN xp ELSE @,
                       !.perLevelAnalytics =
                           [k \in DOMAIN pla \cup {levelId} |->
                               IF k = levelId THEN stats ELSE pla[k]],
                       !.lastPlayedLevel = levelId,
                       !.highestLevelPlayed = UpdateHighest(@, levelId)]
    /\ returned' = << >>
    /\ UNCHANGED <<isInitialized, ident>>

endLevel(levelId, successful, timeTakenMs, xp) ==
    /\ LET levels == reportData.diagnostics.levels
           i == GetLevelById(levels, levelId)
       IN IF i = 0
          THEN UNCHANGED reportData
          ELSE LET pla == reportData.perLevelAnalytics
                   old == IF levelId \in DOMAIN pla THEN pla[levelId] ELSE NewStats
                   stats == UpdateStats(old, successful, timeTakenMs, xp)
                   total == reportData.xpEarnedTotal + xp
               IN reportData' =
                    [reportData EXCEPT
                       !.diagnostics.levels[i].successful = successful,
                       !.diagnostics.levels[i].timeTaken = timeTakenMs,
                       !.diagnostics.levels[i].xpEarned = xp,
                       !.xpEarnedTotal = total, !.xpEarned = total,
                       !.xpTotal = total, !.bestXp = total,
                       !.perLevelAnalytics =
                           [k \in DOMAIN pla \cup {levelId} |->
                               IF k = levelId THEN stats ELSE pla[k]],
                       !.lastPlayedLevel = levelId,
                       !.highestLevelPlayed = UpdateHighest(@, levelId)]
    /\ returned' = << >>
    /\ UNCHANGED <<isInitialized, ident>>

recordTask(levelId, taskId, question, correctChoice, choiceMade, timeMs, xp) ==
    /\ LET levels == reportData.diagnostics.levels
           i == GetLevelById(levels, levelId)
       IN IF i = 0
          THEN UNCHANGED reportData
          ELSE LET isSuccessful == (correctChoice = choiceMade)
                   taskData ==
                     [taskId |-> taskId, question |-> question, options |-> "[]",
                      correctChoice |-> correctChoice, choiceMade |-> choiceMade,
                      successful |-> isSuccessful, timeTaken |-> timeMs,
                      xpEarned |-> xp]
               IN reportData' =
                    [reportData EXCEPT
                       !.diagnostics.levels[i].tasks = Append(@, taskData)]
    /\ returned' = << >>
    /\ UNCHANGED <<isInitialized, ident>>

\* reset that forgets highestLevelPlayed (mutation)
resetKeepsHighest ==
    /\ reportData' =
         [reportData EXCEPT
            !.xpEarnedTotal = 0, !.xpEarned = 0, !.xpTotal = 0, !.bestXp = 0,
            !.lastPlayedLevel = "",
            !.perLevelAnalytics = << >>, !.rawData = << >>,
            !.diagnostics.levels = << >>]
    /\ returned' = << >>
    /\ UNCHANGED <<isInitialized, ident>>

\* reset that leaves the per-level statistics in place (mutation)
resetKeepsAnalytics ==
    /\ reportData' =
         [reportData EXCEPT
            !.xpEarnedTotal = 0, !.xpEarned = 0, !.xpTotal = 0, !.bestXp = 0,
            !.lastPlayedLevel = "", !.highestLevelPlayed = "",
            !.rawData = << >>,
            !.diagnostics.levels = << >>]
    /\ returned' = << >>
    /\ UNCHANGED <<isInitialized, ident>>

reset ==
    /\ reportData' =
         [reportData EXCEPT
            !.xpEarnedTotal = 0, !.xpEarned = 0, !.xpTotal = 0, !.bestXp = 0,
            !.lastPlayedLevel = "", !.highestLevelPlayed = "",
            !.perLevelAnalytics = << >>, !.rawData = << >>,
            !.diagnostics.levels = << >>]
    /\ returned' = << >>
    /\ UNCHANGED <<isInitialized, ident>>

\* the objects of a report structure a caller can change in place: the report
\* object itself and, nested in it, the diagnostics.levels array
Parts == {"report", "levels"}

\* a copy of the top-level object only, { ...this._reportData } (mutation):
\* the nested levels array is the store's own
getReportDataShallow == [value |-> reportData, shares |-> {"levels"}]

\* getReportData (lines 308-310): the structure returned, and the objects it
\* shares with the store.  JSON.parse builds every object anew: none.
getReportData == [value |-> JsonClone(reportData), shares |-> {}]

(***************************************************************************)
(* The delivery dispatcher: the body of submitReport                       *)
(***************************************************************************)
Channels == {"site", "webview", "parent"}
Wildcard == "*"
StorageOutcomes == {"ok", "readThrows", "writeThrows"}
Events == {"online", "load"}

\* one call into a channel: ok is FALSE when the call threw
ChannelCall(ch, arg, target, ok) ==
    [ch |-> ch, arg |-> arg, target |-> target, ok |-> ok]

\* JSON.stringify(p): the text of p, which is not p
JsonStringify(p) == [json |-> p]

\* savePending that puts the payload at the head of the list (mutation)
savePendingFront(list, p, st) ==
    IF st = "ok" THEN << JsonClone(p) >> \o list ELSE list

\* savePending (lines 230-236): the list stored afterwards
savePending(list, p, st) ==
    IF st = "ok" THEN Append(list, JsonClone(p)) ELSE list

\* trySend that stops at the first channel that delivers (mutation)
trySendShortCircuit(p, throws) ==
    LET site ==
          IF "site" \in channels
          THEN << [ch |-> "site", arg |-> p, target |-> "", ok |-> "site" \notin throws] >>
          ELSE << >>
        sent1 == site # << >> /\ site[1].ok
        webview ==
          IF ~sent1 /\ "webview" \in channels
          THEN << [ch |-> "webview", arg |-> [json |-> p], target |-> "",
                   ok |-> "webview" \notin throws] >>
          ELSE << >>
        sent2 == sent1 \/ (webview # << >> /\ webview[1].ok)
        target == IF parentOrigin # "" THEN parentOrigin ELSE "*"
        parent ==
          IF ~sent2 /\ "parent" \in channels
          THEN << [ch |-> "parent", arg |-> p, target |-> target,
                   ok |-> "parent" \notin throws] >>
          ELSE << >>
        sent3 == sent2 \/ (parent # << >> /\ parent[1].ok)
    IN [calls |-> site \o webview \o parent, sent |-> sent3]

\* trySend (lines 238-269); throws is the set of channels whose call throws.
\* window.parent undefined makes line 259 throw before any call is made.
trySend(p, throws) ==
    LET site ==
          IF "site" \in channels
          THEN << ChannelCall("site", p, "", "site" \notin throws) >>
          ELSE << >>
        sent1 == site # << >> /\ site[1].ok
        webview ==
          IF "webview" \in channels
          THEN << ChannelCall("webview", JsonStringify(p), "", "webview" \notin throws) >>
          ELSE << >>
        sent2 == sent1 \/ (webview # << >> /\ webview[1].ok)
        target == IF parentOrigin # "" THEN parentOrigin ELSE Wildcard
        parent ==
          IF "parent" \in channels
          THEN << ChannelCall("parent", p, target, "parent" \notin throws) >>
          ELSE << >>
        sent3 == sent2 \/ (parent # << >> /\ parent[1].ok)
    IN [calls |-> site \o webview \o parent, sent |-> sent3]

\* list.forEach(function (p) { trySend(p); }): the calls made, in order
RECURSIVE SendAll(_, _, _)
SendAll(list, throwsAt, i) ==
    IF i > Len(list) THEN << >>
    ELSE trySend(list[i], throwsAt[i]).calls \o SendAll(list, throwsAt, i + 1)

\* the entries of the list whose delivery attempt did not succeed
RECURSIVE Undelivered(_, _, _)
Undelivered(list, throwsAt, i) ==
    IF i > Len(list) THEN << >>
    ELSE (IF trySend(list[i], throwsAt[i]).sent THEN << >> ELSE << list[i] >>)
         \o Undelivered(list, throwsAt, i + 1)

\* flushPending that keeps the entries it could not deliver (mutation)
flushPendingKeepsFailed(throwsAt, st) ==
    IF st = "readThrows" \/ storage = << >>
    THEN /\ sendLog' = << >>
         /\ UNCHANGED storage
    ELSE /\ sendLog' = SendAll(storage, throwsAt, 1)
         /\ storage' = IF st = "writeThrows" THEN storage
                       ELSE Undelivered(storage, throwsAt, 1)

\* flushPending that leaves the stored list in place (mutation)
flushPendingKeepsQueue(throwsAt, st) ==
    IF st = "readThrows" \/ storage = << >>
    THEN /\ sendLog' = << >>
         /\ UNCHANGED storage
    ELSE /\ sendLog' = SendAll(storage, throwsAt, 1)
         /\ UNCHANGED storage

\* flushPending (lines 271-278)
flushPending(throwsAt, st) ==
    IF st = "readThrows" \/ storage = << >>
    THEN /\ sendLog' = << >>
         /\ UNCHANGED storage
    ELSE /\ sendLog' = SendAll(storage, throwsAt, 1)
         /\ storage' = IF st = "writeThrows" THEN storage ELSE << >>

\* submitReport whose payload is built before the timestamp is refreshed
\* (mutation)
submitBodyStalePayload(now, throws, st) ==
    LET stamped == [reportData EXCEPT !.timestamp = ToISOString(now)]
        payload == JsonClone(reportData)
    IN /\ reportData' = stamped
       /\ UNCHANGED <<isInitialized, ident>>
       /\ IF ~window
          THEN /\ returned' = << payload >>
               /\ sendLog' = << >>
               /\ UNCHANGED <<storage, listeners, timers>>
          ELSE LET ok == trySend(payload, throws)
               IN /\ sendLog' = ok.calls
                  /\ storage' = IF ok.sent THEN storage
                                ELSE savePending(storage, payload, st)
                  /\ listeners' = [e \in DOMAIN listeners |-> listeners[e] + 1]
                  /\ timers' = timers + 1
                  /\ returned' = << >>

\* submitReport that schedules no delayed flush (mutation)
submitBodyNoTimer(now, throws, st) ==
    LET stamped == [reportData EXCEPT !.timestamp = ToISOString(now)]
        payload == JsonClone(stamped)
    IN /\ reportData' = stamped
       /\ UNCHANGED <<isInitialized, ident>>
       /\ IF ~window
          THEN /\ returned' = << payload >>
               /\ sendLog' = << >>
               /\ UNCHANGED <<storage, listeners, timers>>
          ELSE LET ok == trySend(payload, throws)
               IN /\ sendLog' = ok.calls
                  /\ storage' = IF ok.sent THEN storage
                                ELSE savePending(storage, payload, st)
                  /\ listeners' = [e \in DOMAIN listeners |-> listeners[e] + 1]
                  /\ UNCHANGED timers
                  /\ returned' = << >>

\* submitReport in which a failure of savePending is not caught (mutation)
submitBodySaveThrows(now, throws, st) ==
    LET stamped == [reportData EXCEPT !.timestamp = ToISOString(now)]
        payload == JsonClone(stamped)
    IN /\ reportData' = stamped
       /\ UNCHANGED <<isInitialized, ident>>
       /\ IF ~window
          THEN /\ returned' = << payload >>
               /\ sendLog' = << >>
               /\ UNCHANGED <<storage, listeners, timers>>
          ELSE LET ok == trySend(payload, throws)
               IN /\ sendLog' = ok.calls
                  /\ storage' = IF ok.sent THEN storage
                                ELSE savePending(storage, payload, st)
                  /\ IF ~ok.sent /\ st # "ok"
                     THEN /\ returned' = << [error |-> st] >>
                          /\ UNCHANGED <<listeners, timers>>
                     ELSE /\ listeners' = [e \in DOMAIN listeners |-> listeners[e] + 1]
                          /\ timers' = timers + 1
                          /\ returned' = << >>

\* submitReport past its guard (lines 217-301)
submitBody(now, throws, st) ==
    LET stamped == [reportData EXCEPT !.timestamp = ToISOString(now)]
        payload == JsonClone(stamped)
    IN /\ reportData' = stamped
       /\ UNCHANGED <<isInitialized, ident>>
       /\ IF ~window
          THEN /\ returned' = << payload >>
               /\ sendLog' = << >>
               /\ UNCHANGED <<storage, listeners, timers>>
          ELSE LET ok == trySend(payload, throws)
               IN /\ sendLog' = ok.calls
                  /\ storage' = IF ok.sent THEN storage
                                ELSE savePending(storage, payload, st)
                  /\ listeners' = [e \in DOMAIN listeners |-> listeners[e] + 1]
                  /\ timers' = timers + 1
                  /\ returned' = << >>

\* submitReport without the guard of lines 212-215 (mutation)
submitReportUnguarded(now, throws, st) == submitBody(now, throws, st)

\* submitReport (lines 211-302)
submitReport(now, throws, st) ==
    IF ~isInitialized
    THEN /\ returned' = << >>
         /\ sendLog' = << >>
         /\ UNCHANGED <<isInitialized, ident, reportData, storage, listeners, timers>>
    ELSE submitBody(now, throws, st)

\* the 'message' listener (lines 290-297): the value parsed from ev.data,
\* << >> when JSON.parse throws
ParseMessage(m) ==
    IF m.form = "text" THEN << >>
    ELSE << [type |-> m.type, parentOrigin |-> m.parentOrigin] >>

onMessage(m) ==
    LET msg == ParseMessage(m)
    IN IF /\ listeners["message"] > 0
          /\ msg # << >>
          /\ msg[1].type = "ANALYTICS_CONFIG"
          /\ msg[1].parentOrigin # ""
       THEN parentOrigin' = msg[1].parentOrigin
       ELSE UNCHANGED parentOrigin

(***************************************************************************)
(* Steps: one call of a public method or one handler run, with the         *)
(* history it leaves                                                       *)
(***************************************************************************)
RECURSIVE SumOver(_, _)
SumOver(f, S) ==
    IF S = {} THEN 0
    ELSE LET x == CHOOSE y \in S : TRUE IN f[x] + SumOver(f, S \ {x})

TotalEnds == SumOver([l \in AllLevelIds |-> hLevel[l].ends], AllLevelIds)

TotalTasks ==
    LET levels == reportData.diagnostics.levels
    IN SumOver([i \in DOMAIN levels |-> Len(levels[i].tasks)], DOMAIN levels)

Other == Op("other", << >>)

\* the history entry of a mutation call: by name when it is watched
Named(name, args) == IF name \in hWatch THEN Op(name, args) ELSE Other

\* what a channel is handed by a call that does not throw
Handed(call) ==
    [ch |-> call.ch,
     payload |-> IF call.ch = "webview" THEN call.arg.json ELSE call.arg]

\* the deliveries so far, with those of the calls in log when watched
Receives(log) ==
    IF "deliveries" \in hWatch
    THEN LET good == SelectSeq(log, LAMBDA c : c.ok)
         IN hReceived \o [i \in 1..Len(good) |-> Handed(good[i])]
    ELSE hReceived

\* the payload of a submission that ended neither delivered nor stored, when
\* watched: log is the calls it made, list the stored list it left
Drops(payload, log, list) ==
    IF /\ "drops" \in hWatch
       /\ isInitialized /\ window
       /\ \A i \in DOMAIN log : ~log[i].ok
       /\ list = storage
    THEN << [ch |-> "dropped", payload |-> payload] >>
    ELSE << >>

\* no window event is being dispatched: the event loop is free
Idle == dispatch.left = 0

\* the store holds level history, raw metrics and XP
Dirty ==
    /\ reportData.diagnostics.levels # << >>
    /\ reportData.rawData # << >>
    /\ reportData.xpEarnedTotal # 0
    /\ DOMAIN reportData.perLevelAnalytics # {}

CallInitialize(g, s, now) ==
    /\ Idle
    /\ initialize(g, s, now)
    /\ hInit' = TRUE
    /\ hLevel' = HistoryEmpty
    /\ hLast' = Op("initialize", [gameId |-> g, sessionId |-> s, dirty |-> Dirty])
    /\ UNCHANGED <<callerVars, hReceived, deliveryVars, hShake>>

CallAddRawMetric(k, v) ==
    /\ Idle
    /\ Len(reportData.rawData) < MaxRaw
    /\ addRawMetric(k, v)
    /\ hLast' = Named("addRawMetric", [levelId |-> ""])
    /\ UNCHANGED <<callerVars, hReceived, deliveryVars, hInit, hLevel, hShake>>

CallStartLevel(l) ==
    /\ Idle
    /\ Len(reportData.diagnostics.levels) < MaxLevels
    /\ startLevel(l)
    /\ hLevel' = IF hInit
                 THEN [hLevel EXCEPT ![l] =
                         [@ EXCEPT !.started = TRUE, !.tasks = << >>,
                                   !.ended = FALSE, !.endSuccessful = FALSE,
                                   !.endTime = 0, !.endXp = 0]]
                 ELSE hLevel
    /\ hLast' = Named("startLevel", [levelId |-> l])
    /\ UNCHANGED <<callerVars, hReceived, deliveryVars, hInit, hShake>>

CallRecordTask(l, a) ==
    /\ Idle
    /\ TotalTasks < MaxTasks
    /\ recordTask(l, a.taskId, a.question, a.correctChoice, a.choiceMade,
                  a.timeMs, a.xp)
    /\ hLevel' = IF hLevel[l].started
                 THEN [hLevel EXCEPT ![l].tasks = Append(@, a)]
                 ELSE hLevel
    /\ hLast' = Named("recordTask", [levelId |-> l])
    /\ UNCHANGED <<callerVars, hReceived, deliveryVars, hInit, hShake>>

CallEndLevel(l, successful, t, xp) ==
    /\ Idle
    /\ TotalEnds < MaxEnds
    /\ endLevel(l, successful, t, xp)
    /\ hLevel' = IF hLevel[l].started
                 THEN [hLevel EXCEPT ![l] =
                         [@ EXCEPT !.ended = TRUE, !.endSuccessful = successful,
                                   !.endTime = t, !.endXp = xp,
                                   !.ends = @ + 1, !.times = @ \cup {t}]]
                 ELSE hLevel
    /\ hLast' = Named("endLevel", [levelId |-> l])
    /\ UNCHANGED <<callerVars, hReceived, deliveryVars, hInit, hShake>>

CallReset ==
    /\ Idle
    /\ reset
    /\ hLevel' = HistoryEmpty
    /\ hLast' = Op("reset", [dirty |-> Dirty])
    /\ UNCHANGED <<callerVars, hReceived, deliveryVars, hInit, hShake>>

CallSubmitReport(now, throws, st) ==
    /\ Idle
    /\ listeners["online"] < MaxSubmits
    /\ submitReport(now, throws, st)
    /\ hReceived' = Receives(sendLog') \o Drops(JsonClone(reportData'), sendLog', storage')
    /\ hLast' = Op("submitReport",
                   [st |-> st, before |-> storage,
                    ok |-> isInitialized /\ window /\ trySend(reportData, throws).sent])
    /\ UNCHANGED <<callerVars, window, channels, parentOrigin, dispatch, hInit, hLevel, hShake>>

CallGetReportData ==
    /\ Idle
    /\ Len(held) < MaxHeld
    /\ returned' = << getReportData.value >>
    /\ held' = Append(held, getReportData)
    /\ hLast' = Op("getReportData", << >>)
    /\ UNCHANGED <<isInitialized, ident, reportData, deliveryVars, hookVars, hWatch, hReceived,
                   hInit, hLevel, hShake>>

\* what the caller's change makes of a report structure: an assignment to a
\* field of the report object, or a push onto the levels array
Tamper(v, part) ==
    IF part = "report"
    THEN [v EXCEPT !.gameId = "tampered"]
    ELSE [v EXCEPT !.diagnostics.levels =
             Append(@, [levelId |-> "tampered", successful |-> TRUE,
                        timeTaken |-> 0, timeDirection |-> FALSE,
                        xpEarned |-> 0, tasks |-> << >>])]

Tampered(v, part) ==
    IF part = "report"
    THEN v.gameId = "tampered"
    ELSE \E k \in DOMAIN v.diagnostics.levels :
            v.diagnostics.levels[k].levelId = "tampered"

\* the caller changes, in place, a structure that getReportData returned:
\* the change shows in every structure that shares the changed object
CallerMutates(i, part) ==
    /\ Idle
    /\ i \in DOMAIN held
    /\ ~Tampered(held[i].value, part)
    /\ held' = [j \in DOMAIN held |->
                 IF j = i \/ part \in held[i].shares \cap held[j].shares
                 THEN [held[j] EXCEPT !.value = Tamper(@, part)]
                 ELSE held[j]]
    /\ reportData' = IF part \in held[i].shares
                     THEN Tamper(reportData, part)
                     ELSE reportData
    /\ hLast' = Op("callerMutates", [index |-> i, part |-> part])
    /\ UNCHANGED <<isInitialized, ident, returned, deliveryVars, hookVars, hWatch, hReceived,
                   hInit, hLevel, hShake>>

\* the delayed flush of line 299 fires
TimerFires(throwsAt, st) ==
    /\ Idle
    /\ timers > 0
    /\ timers' = timers - 1
    /\ flushPending(throwsAt, st)
    /\ hReceived' = Receives(sendLog')
    /\ hLast' = Op("flushPending", [st |-> st, before |-> storage])
    /\ UNCHANGED <<callerVars, storeVars, window, channels, listeners, parentOrigin, dispatch,
                   hInit, hLevel, hShake>>

\* the window receives an 'online' or 'load' event: every handler attached to
\* it is due to run
WindowEvent(e) ==
    /\ Idle
    /\ window
    /\ listeners[e] > 0
    /\ dispatch' = [event |-> e, left |-> listeners[e]]
    /\ hLast' = Other
    /\ UNCHANGED <<callerVars, hReceived, storeVars, window, channels, storage, listeners, timers,
                   parentOrigin, sendLog, hInit, hLevel, hShake>>

\* the next handler of the event being dispatched runs
RunListener(throwsAt, st) ==
    /\ dispatch.left > 0
    /\ dispatch' = [dispatch EXCEPT !.left = @ - 1]
    /\ flushPending(throwsAt, st)
    /\ hReceived' = Receives(sendLog')
    /\ hLast' = Op("flushPending", [st |-> st, before |-> storage])
    /\ UNCHANGED <<callerVars, storeVars, window, channels, listeners, timers, parentOrigin,
                   hInit, hLevel, hShake>>

\* a message carrying a negotiated parent origin
IsHandshake(m) ==
    m.form # "text" /\ m.type = "ANALYTICS_CONFIG" /\ m.parentOrigin # ""

\* the window receives a 'message' event
MessageEvent(m) ==
    /\ Idle
    /\ window
    /\ onMessage(m)
    /\ hShake' = IF IsHandshake(m) THEN m.parentOrigin ELSE hShake
    /\ hLast' = Other
    /\ UNCHANGED <<callerVars, hReceived, storeVars, window, channels, storage, listeners, timers,
                   dispatch, sendLog, hInit, hLevel>>

(***************************************************************************)
(* The event hooks (analytics-integration.js)                              *)
(*                                                                         *)
(* The game's own functions (script.js) are the environment of the hooks:  *)
(* the original startGame makes the level the current campaign level, the  *)
(* original startTimer sets gameState.timerId and gameState.timeRemaining, *)
(* and the game's timer counts timeRemaining down to 0.  A callback runs   *)
(* to completion: while hook.running holds the store calls it has still to *)
(* make, no other handler starts.                                          *)
(***************************************************************************)
\* getCurrentLevelId (lines 39-46)
getCurrentLevelId ==
    IF hook.currentGameMode = "campaign" /\ hook.gameState.currentCampaignLevel # 0
    THEN CampaignId(hook.gameState.currentCampaignLevel)
    ELSE IF hook.currentGameMode = "reflex" THEN "reflex_mode"
    ELSE "unknown_level"

\* no callback of the hook layer is running
HookFree == hook.installed /\ hook.running = << >>

\* the integration script runs (lines 8-327): the session is initialized and
\* the hooks are installed
ScriptLoads(s, now) ==
    /\ ~hook.installed
    /\ initialize("BrainMatch_Flags", s, now)
    /\ hook' = [hook EXCEPT !.installed = TRUE]
    /\ hInit' = TRUE
    /\ hLevel' = HistoryEmpty
    /\ hLast' = Op("initialize", [gameId |-> "BrainMatch_Flags", sessionId |-> s,
                                   dirty |-> Dirty])
    /\ UNCHANGED <<deliveryVars, held, hWatch, hTimeout, hReceived, hShake>>

\* the startGame hook (lines 64-79), and the game making the level current
HookStartGame(level, now) ==
    /\ HookFree
    /\ Len(reportData.diagnostics.levels) < MaxLevels
    /\ startLevel(CampaignId(level))
    /\ hook' = [hook EXCEPT !.currentGameMode = "campaign",
                            !.currentLevelId = CampaignId(level),
                            !.levelStartTime = now,
                            !.taskCounter = 0,
                            !.gameState.currentCampaignLevel = level]
    /\ hLevel' = [hLevel EXCEPT ![CampaignId(level)] =
                    [@ EXCEPT !.started = TRUE, !.tasks = << >>,
                              !.ended = FALSE, !.endSuccessful = FALSE,
                              !.endTime = 0, !.endXp = 0]]
    /\ hLast' = Named("startLevel", [levelId |-> CampaignId(level)])
    /\ UNCHANGED <<deliveryVars, held, hWatch, hTimeout, hReceived, hInit, hShake>>

\* the startTimer hook (lines 281-320): the game's startTimer sets up its
\* timer (id is gameState.timerId afterwards, 0 when it set none), then a
\* polling callback is started when there is a timer
HookStartTimer(duration, id) ==
    /\ HookFree
    /\ hook.startTimers < MaxTimers
    /\ hook' = [hook EXCEPT !.gameState.timerId = id,
                            !.gameState.timeRemaining = duration,
                            !.startTimers = @ + 1,
                            !.checkIntervals = IF id # 0 THEN @ + 1 ELSE @]
    /\ hLast' = Other
    /\ UNCHANGED <<storeVars, deliveryVars, held, hWatch, hTimeout, hReceived,
                   hInit, hLevel, hShake>>

\* the game's timer counts down; on reaching 0 the level attempt has timed out
GameTick ==
    /\ HookFree
    /\ hook.gameState.timeRemaining > 0
    /\ hook' = [hook EXCEPT !.gameState.timeRemaining = @ - 1]
    /\ hTimeout' = IF hook.gameState.timeRemaining = 1
                   THEN [timeouts |-> hTimeout.timeouts + 1, ends |-> 0, submits |-> 0]
                   ELSE hTimeout
    /\ hLast' = Other
    /\ UNCHANGED <<storeVars, deliveryVars, held, hWatch, hReceived,
                   hInit, hLevel, hShake>>

\* one polling callback ticks (lines 293-313) and finds timeRemaining === 0
\* (any other reading makes the tick change nothing): it calls endLevel and
\* goes on to the calls of lines 302-308; elapsed is Date.now() - levelStartTime
PollTick(elapsed) ==
    /\ HookFree
    /\ hook.checkIntervals > 0
    /\ hook.gameState.timeRemaining = 0
    /\ LET l == getCurrentLevelId
           timeTaken == IF hook.levelStartTime # 0 THEN elapsed ELSE 0
       IN /\ endLevel(l, FALSE, timeTaken, 0)
          /\ hLevel' = IF l \in DOMAIN hLevel /\ hLevel[l].started
                       THEN [hLevel EXCEPT ![l] =
                               [@ EXCEPT !.ended = TRUE, !.endSuccessful = FALSE,
                                         !.endTime = timeTaken, !.endXp = 0,
                                         !.ends = @ + 1, !.times = @ \cup {timeTaken}]]
                       ELSE hLevel
          /\ hLast' = Named("endLevel", [levelId |-> l])
    /\ hook' = [hook EXCEPT !.running =
                  << [call |-> "addRawMetric", key |-> "failure_reason", value |-> "timeout"],
                     [call |-> "addRawMetric", key |-> "turns",
                      value |-> hook.gameState.turns],
                     [call |-> "submitReport", key |-> "", value |-> ""] >>]
    /\ hTimeout' = [hTimeout EXCEPT !.ends = @ + 1]
    /\ UNCHANGED <<deliveryVars, held, hWatch, hReceived, hInit, hShake>>

\* the running callback makes its next call; after submitReport it clears
\* its own interval (line 308) and ends
RunCallback ==
    /\ hook.installed
    /\ hook.running # << >>
    /\ LET c == Head(hook.running)
       IN \/ /\ c.call = "addRawMetric"
             /\ addRawMetric(c.key, c.value)
             /\ hook' = [hook EXCEPT !.running = Tail(@)]
             /\ hLast' = Named("addRawMetric", [levelId |-> ""])
             /\ UNCHANGED <<deliveryVars, hTimeout, hReceived>>
          \/ /\ c.call = "submitReport"
             /\ \E now \in Clock, throws \in SUBSET channels :
                   /\ submitReport(now, throws, "ok")
                   /\ hLast' = Op("submitReport",
                                  [st |-> "ok", before |-> storage,
                                   ok |-> isInitialized /\ window
                                          /\ trySend(reportData, throws).sent])
             /\ hReceived' = Receives(sendLog')
             /\ hook' = [hook EXCEPT !.running = Tail(@), !.checkIntervals = @ - 1]
             /\ hTimeout' = [hTimeout EXCEPT !.submits = @ + 1]
             /\ UNCHANGED <<window, channels, parentOrigin, dispatch>>
    /\ UNCHANGED <<held, hWatch, hInit, hLevel, hShake>>

(***************************************************************************)
(* Specifications                                                          *)
(***************************************************************************)
DeliveryIdle ==
    /\ storage = << >>
    /\ listeners = [e \in Events \cup {"message"} |-> 0]
    /\ timers = 0
    /\ parentOrigin = ""
    /\ dispatch = [event |-> "", left |-> 0]
    /\ sendLog = << >>
    /\ hShake = ""

\* a process without a window (node, tests): submitReport returns the payload
Init ==
    /\ StoreInit
    /\ DeliveryIdle
    /\ window = FALSE
    /\ channels = {}

\* every public method of the store, with its arguments drawn from the given sets
StoreNext(ids, sessions, clock, taskArgs, outcomes, times, xps) ==
    \/ \E g \in GameIds, s \in sessions, now \in clock : CallInitialize(g, s, now)
    \/ \E k \in MetricKeys, v \in MetricValues : CallAddRawMetric(k, v)
    \/ \E l \in ids : CallStartLevel(l)
    \/ \E l \in ids, a \in taskArgs : CallRecordTask(l, a)
    \/ \E l \in ids, b \in outcomes, t \in times, x \in xps :
          CallEndLevel(l, b, t, x)
    \/ CallReset
    \/ \E now \in clock : CallSubmitReport(now, {}, "ok")

OneTask == {a \in TaskArgs : a.choiceMade = "cat"}

\* the whole store, every argument from a small set
Next == StoreNext({CampaignId(1)}, SessionIds, Clock, OneTask, BOOLEAN, {1}, {1})

Spec == Init /\ [][Next]_vars

\* level attempts and their tasks: two level ids, two kinds of task
NextTasks == StoreNext(LevelIds, {"session_a"}, {0}, TaskArgs, {TRUE}, Times, {1})

SpecTasks == Init /\ [][NextTasks]_vars

\* the per-level statistics: two level ids, both outcomes, two times
NextStats == StoreNext(LevelIds, {"session_a"}, {0}, OneTask, BOOLEAN, Times, {1})

SpecStats == Init /\ [][NextStats]_vars

\* the campaign ranking: every level id
NextCampaign == StoreNext(AllLevelIds, {"session_a"}, {0}, OneTask, {TRUE}, {1}, {1})

SpecCampaign == Init /\ [][NextCampaign]_vars

\* a process without a window whose history names every mutation call
InitCalls ==
    /\ StoreStart(MutationOps)
    /\ DeliveryIdle
    /\ window = FALSE
    /\ channels = {}

\* the mutation operations, called in any order and in any state of the store
NextCalls == StoreNext(LevelIds, {"session_a"}, {0}, OneTask, {TRUE}, Times, {1})

SpecCalls == InitCalls /\ [][NextCalls]_vars

\* the XP totals: both outcomes, XP gained and XP taken away
NextXp ==
    StoreNext({CampaignId(1)}, {"session_a"}, {0}, OneTask, BOOLEAN, {1}, XpValues)

SpecXp == Init /\ [][NextXp]_vars

\* the XP totals over two level ids: both outcomes, XP gained and taken away
NextTotals ==
    StoreNext(LevelIds, {"session_a"}, {0}, OneTask, BOOLEAN, {1}, XpValues)

SpecTotals == Init /\ [][NextTotals]_vars

\* a caller that reads the report, keeps what it got and changes it, while
\* the store goes on
NextRead ==
    \/ \E g \in GameIds : CallInitialize(g, "session_a", 0)
    \/ CallStartLevel(CampaignId(1))
    \/ CallGetReportData
    \/ \E i \in 1..MaxHeld, part \in Parts : CallerMutates(i, part)

SpecRead == Init /\ [][NextRead]_vars

Messages ==
    {[form |-> "object", type |-> "ANALYTICS_CONFIG", parentOrigin |-> "https://a.example"],
     [form |-> "json", type |-> "ANALYTICS_CONFIG", parentOrigin |-> "https://b.example"],
     [form |-> "object", type |-> "ANALYTICS_CONFIG", parentOrigin |-> ""],
     [form |-> "object", type |-> "OTHER", parentOrigin |-> "https://c.example"],
     [form |-> "text", type |-> "", parentOrigin |-> ""]}

\* a browser window whose only channel, if any, is the parent context
InitDelivery ==
    /\ StoreInit
    /\ DeliveryIdle
    /\ window = TRUE
    /\ channels \in {{}, {"parent"}}

\* submissions, flush triggers and handshakes
NextDelivery ==
    \/ \E g \in GameIds : CallInitialize(g, "session_a", 0)
    \/ \E now \in Clock, throws \in SUBSET channels, st \in StorageOutcomes :
          CallSubmitReport(now, throws, st)
    \/ \E throwsAt \in [1..Len(storage) -> SUBSET channels], st \in StorageOutcomes :
          TimerFires(throwsAt, st)
    \/ \E e \in Events : WindowEvent(e)
    \/ \E throwsAt \in [1..Len(storage) -> SUBSET channels], st \in StorageOutcomes :
          RunListener(throwsAt, st)
    \/ \E m \in Messages : MessageEvent(m)

SpecDelivery == InitDelivery /\ [][NextDelivery]_vars

\* a browser window offering any subset of the channels
InitSend ==
    /\ StoreInit
    /\ DeliveryIdle
    /\ window = TRUE
    /\ channels \in SUBSET Channels

\* delivery attempts over every combination of channels
NextSend ==
    \/ \E g \in GameIds : CallInitialize(g, "session_a", 0)
    \/ \E now \in Clock, throws \in SUBSET channels, st \in StorageOutcomes :
          CallSubmitReport(now, throws, st)
    \/ \E m \in Messages : MessageEvent(m)

SpecSend == InitSend /\ [][NextSend]_vars

\* submissions that stay in the pending queue while the store goes on, and
\* the delayed flush that hands them out
NextQueue ==
    \/ \E g \in GameIds : CallInitialize(g, "session_a", 0)
    \/ CallStartLevel(CampaignId(1))
    \/ CallReset
    \/ \E throws \in SUBSET channels : CallSubmitReport(1, throws, "ok")
    \/ \E throwsAt \in [1..Len(storage) -> SUBSET channels] :
          TimerFires(throwsAt, "ok")

SpecQueue == InitDelivery /\ [][NextQueue]_vars

\* a browser window with unstable channels and working storage, whose
\* history records what the channels were handed
InitUnstable ==
    /\ StoreStart({"deliveries"})
    /\ DeliveryIdle
    /\ window = TRUE
    /\ channels \in SUBSET {"site", "parent"}

\* the reading of a clock that has moved on since the previous submission:
\* no two submissions carry the same timestamp
TickingClock == listeners["online"] + 1

\* submissions and every flush trigger; each channel call may throw or not
NextUnstable ==
    \/ \E g \in GameIds : CallInitialize(g, "session_a", 0)
    \/ \E throws \in SUBSET channels :
          CallSubmitReport(TickingClock, throws, "ok")
    \/ \E throwsAt \in [1..Len(storage) -> SUBSET channels] :
          TimerFires(throwsAt, "ok")
    \/ \E e \in Events : WindowEvent(e)
    \/ \E throwsAt \in [1..Len(storage) -> SUBSET channels] :
          RunListener(throwsAt, "ok")

SpecUnstable == InitUnstable /\ [][NextUnstable]_vars

\* the delayed flush of some submission runs, storage working
DelayedFlush ==
    \E throwsAt \in [1..Len(storage) -> SUBSET channels] : TimerFires(throwsAt, "ok")

\* a handler of the event being dispatched runs, storage working
HandlerRuns ==
    \E throwsAt \in [1..Len(storage) -> SUBSET channels] : RunListener(throwsAt, "ok")

\* the same window under an event loop that runs every timer that is due
\* (setTimeout, line 299) and every handler of an event it dispatches
SpecFlush ==
    /\ InitUnstable
    /\ [][NextUnstable]_vars
    /\ WF_vars(DelayedFlush)
    /\ WF_vars(HandlerRuns)

\* a browser window in which channels and storage may fail at every call,
\* whose history records the payloads that were dropped
InitFail ==
    /\ StoreStart({"drops"})
    /\ DeliveryIdle
    /\ window = TRUE
    /\ channels \in SUBSET {"site", "parent"}

\* submissions and every flush trigger; each channel call and each storage
\* access may throw or not
NextFail ==
    \/ \E g \in GameIds : CallInitialize(g, "session_a", 0)
    \/ \E throws \in SUBSET channels, st \in StorageOutcomes :
          CallSubmitReport(TickingClock, throws, st)
    \/ \E throwsAt \in [1..Len(storage) -> SUBSET channels], st \in StorageOutcomes :
          TimerFires(throwsAt, st)
    \/ \E e \in Events : WindowEvent(e)
    \/ \E throwsAt \in [1..Len(storage) -> SUBSET channels], st \in StorageOutcomes :
          RunListener(throwsAt, st)

SpecFail == InitFail /\ [][NextFail]_vars

\* the game played in a browser window: levels are started, the game starts
\* its timer any number of times, the timer runs out, and the polling
\* callbacks tick in any order
NextHooks ==
    \/ ScriptLoads("session_a", 0)
    \/ HookStartGame(1, 1)
    \/ \E id \in {0, 1} : HookStartTimer(1, id)
    \/ GameTick
    \/ PollTick(1)
    \/ RunCallback

SpecHooks == InitDelivery /\ [][NextHooks]_vars

(***************************************************************************)
(* Properties of the report store                                          *)
(***************************************************************************)
\* the indices of the Level Entries with the id
EntriesOf(l) ==
    {i \in DOMAIN reportData.diagnostics.levels :
        reportData.diagnostics.levels[i].levelId = l}

\* the most recently appended Level Entry with the id
NewestEntry(l) ==
    reportData.diagnostics.levels[
        CHOOSE i \in EntriesOf(l) : \A j \in EntriesOf(l) : j <= i]

\* a Task Entry is the one a recordTask call with arguments a appends
TaskOf(entry, a) ==
    /\ entry.taskId = a.taskId
    /\ entry.question = a.question
    /\ entry.correctChoice = a.correctChoice
    /\ entry.choiceMade = a.choiceMade
    /\ entry.successful = (a.correctChoice = a.choiceMade)
    /\ entry.timeTaken = a.timeMs
    /\ entry.xpEarned = a.xp

\* C1: after startLevel(L), n recordTask(L, ...) calls and endLevel(L, success,
\* t, xp) on an initialized store, the newest Level Entry for L holds exactly
\* the n Task Entries of those calls, in call order, each with successful =
\* (correctChoice = choiceMade), and its successful, timeTaken and xpEarned
\* are the endLevel arguments.
C1_TasksInCallOrder ==
    \A l \in AllLevelIds :
        hLevel[l].started =>
            /\ EntriesOf(l) # {}
            /\ LET e == NewestEntry(l)
                   h == hLevel[l]
               IN /\ Len(e.tasks) = Len(h.tasks)
                  /\ \A i \in 1..Len(h.tasks) : TaskOf(e.tasks[i], h.tasks[i])
                  /\ h.ended =>
                        /\ e.successful = h.endSuccessful
                        /\ e.timeTaken = h.endTime
                        /\ e.xpEarned = h.endXp

\* C1 witness: a level id started twice, whose newest attempt got two
\* different tasks and was then ended
C1_Witness ==
    \E l \in AllLevelIds :
        /\ hLevel[l].started
        /\ hLevel[l].ended
        /\ Len(hLevel[l].tasks) = 2
        /\ hLevel[l].tasks[1] # hLevel[l].tasks[2]
        /\ Cardinality(EntriesOf(l)) = 2
        /\ NewestEntry(l).timeTaken = 2

MinOf(S) == CHOOSE x \in S : \A y \in S : x <= y

\* C2: every endLevel(L, ...) that finds a Level Entry for L adds exactly 1 to
\* perLevelAnalytics[L].attempts, and bestTimeMs is the minimum of all the
\* timeTakenMs passed for L since the last initialize/reset.
C2_AttemptsAndBestTime ==
    \A l \in AllLevelIds :
        hLevel[l].ends > 0 =>
            /\ l \in DOMAIN reportData.perLevelAnalytics
            /\ reportData.perLevelAnalytics[l].attempts = hLevel[l].ends
            /\ reportData.perLevelAnalytics[l].bestTimeMs = MinOf(hLevel[l].times)

\* C2 witness: one Level Entry ended twice, with two different times
C2_Witness ==
    \E l \in AllLevelIds :
        /\ hLevel[l].ends = 2
        /\ hLevel[l].times = {1, 2}
        /\ Cardinality(EntriesOf(l)) = 1

\* the N of campaign_level_N
CampaignNum(l) == CHOOSE n \in CampaignNums : CampaignId(n) = l

\* the campaign levels ended since the last initialize/reset
EndedCampaign == {l \in CampaignIds : hLevel[l].ends > 0}

\* C3: once an endLevel on a campaign-numbered level id (campaign_level_N, N
\* any non-negative integer) has taken effect, highestLevelPlayed is the id
\* with the greatest N among the ended campaign levels.
C3_HighestIsGreatestCampaign ==
    EndedCampaign # {} =>
        /\ reportData.highestLevelPlayed \in EndedCampaign
        /\ \A l \in EndedCampaign :
              CampaignNum(l) <= CampaignNum(reportData.highestLevelPlayed)

\* what initialize(g, s) leaves in a store fresh from the constructor, but
\* for the timestamp
FreshReport(g, s) ==
    [gameId |-> g, sessionId |-> s, timestamp |-> "", name |-> s,
     xpEarnedTotal |-> 0, xpEarned |-> 0, xpTotal |-> 0, bestXp |-> 0,
     lastPlayedLevel |-> "", highestLevelPlayed |-> "",
     perLevelAnalytics |-> << >>, rawData |-> << >>,
     diagnostics |-> [levels |-> << >>]]

\* C4: initialize(g, s) after any prior operations yields the report that
\* initialize(g, s) yields on a fresh store, apart from timestamp.
C4_InitializeReplacesAll ==
    hLast.op = "initialize" =>
        [JsonClone(reportData) EXCEPT !.timestamp = ""] =
            FreshReport(hLast.args.gameId, hLast.args.sessionId)

\* C4 witness: initialize called on a store holding levels, metrics and XP
C4_Witness ==
    /\ hLast.op = "initialize"
    /\ hLast.args.dirty
    /\ reportData.sessionId = "session_b"

\* the latest call is one the store must ignore: a mutation operation on a
\* store that was never initialized, or endLevel/recordTask for a level id
\* that no startLevel has opened since the last initialize/reset
Ignored(last) ==
    /\ last.op \in MutationOps
    /\ \/ ~hInit
       \/ /\ last.op \in {"endLevel", "recordTask"}
          /\ ~hLevel[last.args.levelId].started

\* C11: startLevel, endLevel, recordTask and addRawMetric on a store that was
\* never initialized, and endLevel or recordTask for a level id without a
\* Level Entry, leave the whole report unchanged and return normally.
C11_IgnoredCallsChangeNothing ==
    [][Ignored(hLast') => (reportData' = reportData /\ returned' = << >>)]_vars

\* C11 witness: endLevel was called for a level id without an entry on an
\* initialized store that holds an entry, with tasks, for another id
C11_Witness ==
    /\ hLast.op = "endLevel"
    /\ hInit
    /\ ~hLevel[hLast.args.levelId].started
    /\ reportData.diagnostics.levels # << >>
    /\ reportData.diagnostics.levels[1].tasks # << >>

\* the positions of the entries with the given id
EntriesWithId(levels, levelId) ==
    {i \in DOMAIN levels : levels[i].levelId = levelId}

\* C19: on an initialized store startLevel(L) appends one new Level Entry at
\* the end and leaves every existing entry as it was, also when entries with
\* id L exist; endLevel(L, ...) and recordTask(L, ...) leave the number of
\* entries, every entry with another id and every entry with id L but the
\* most recently appended one as they were, and recordTask appends its task
\* to that one.
C19_NewestEntryOnly ==
    [][LET old == reportData.diagnostics.levels
           new == reportData'.diagnostics.levels
           l == hLast'.args.levelId
           same == EntriesWithId(old, l)
       IN /\ (hLast'.op = "startLevel" /\ isInitialized) =>
               /\ Len(new) = Len(old) + 1
               /\ new[Len(new)] =
                     [levelId |-> l, successful |-> FALSE, timeTaken |-> 0,
                      timeDirection |-> FALSE, xpEarned |-> 0, tasks |-> << >>]
               /\ \A i \in DOMAIN old : new[i] = old[i]
          /\ hLast'.op \in {"endLevel", "recordTask"} =>
               /\ Len(new) = Len(old)
               /\ \A i \in DOMAIN old :
                     (i \notin same \/ \E j \in same : j > i) => new[i] = old[i]
               /\ \A i \in same :
                     (hLast'.op = "recordTask" /\ \A j \in same : j <= i) =>
                        Len(new[i].tasks) = Len(old[i].tasks) + 1
      ]_vars

\* C19 witness: endLevel(L, ...) was called with two entries of id L; the
\* newest one is completed, the earlier one is as startLevel made it
C19_Witness ==
    /\ hLast.op = "endLevel"
    /\ LET levels == reportData.diagnostics.levels
           same == EntriesWithId(levels, hLast.args.levelId)
       IN /\ Cardinality(same) = 2
          /\ \E i \in same : levels[i].successful /\ \A j \in same : j <= i
          /\ \E i \in same :
                /\ \E j \in same : j > i
                /\ levels[i] = [levelId |-> hLast.args.levelId, successful |-> FALSE,
                                timeTaken |-> 0, timeDirection |-> FALSE,
                                xpEarned |-> 0, tasks |-> << >>]

\* C12: reset() in any state zeroes the XP totals, empties perLevelAnalytics,
\* rawData and diagnostics.levels, clears lastPlayedLevel and
\* highestLevelPlayed, and leaves gameId, sessionId and the initialization
\* flag unchanged; a startLevel right after the reset of an initialized store
\* takes effect.
C12_ResetKeepsIdentity ==
    [][/\ hLast'.op = "reset" =>
            /\ reportData'.xpEarnedTotal = 0
            /\ reportData'.xpEarned = 0
            /\ reportData'.xpTotal = 0
            /\ reportData'.bestXp = 0
            /\ reportData'.perLevelAnalytics = << >>
            /\ reportData'.rawData = << >>
            /\ reportData'.diagnostics.levels = << >>
            /\ reportData'.lastPlayedLevel = ""
            /\ reportData'.highestLevelPlayed = ""
            /\ reportData'.gameId = reportData.gameId
            /\ reportData'.sessionId = reportData.sessionId
            /\ isInitialized' = isInitialized
            /\ ident' = ident
       /\ (hLast.op = "reset" /\ hInit /\ hLast'.op = "startLevel") =>
            /\ Len(reportData'.diagnostics.levels) = 1
            /\ reportData'.diagnostics.levels[1].levelId = hLast'.args.levelId
      ]_vars

\* C12 witness: reset was called on an initialized store that held levels,
\* metrics, XP and statistics
C12_Witness ==
    /\ hLast.op = "reset"
    /\ hLast.args.dirty
    /\ isInitialized
    /\ reportData.gameId = "BrainMatch_Flags"

\* C13: in every reachable state of the store, xpEarned, xpTotal and bestXp
\* all equal xpEarnedTotal.
C13_XpAliases ==
    /\ reportData.xpEarned = reportData.xpEarnedTotal
    /\ reportData.xpTotal = reportData.xpEarnedTotal
    /\ reportData.bestXp = reportData.xpEarnedTotal

\* C13 witness: two endLevel calls have added XP, the total is not 0
C13_Witness ==
    /\ reportData.xpEarnedTotal = 2
    /\ \E l \in AllLevelIds : hLevel[l].ends = 2

\* C22: in every state xpEarnedTotal is the sum of perLevelAnalytics[L].totalXp
\* over the level ids L present, and every L present has
\* attempts = wins + losses >= 1.
C22_TotalsAgree ==
    LET pla == reportData.perLevelAnalytics
    IN /\ reportData.xpEarnedTotal =
             SumOver([l \in DOMAIN pla |-> pla[l].totalXp], DOMAIN pla)
       /\ \A l \in DOMAIN pla :
             /\ pla[l].attempts = pla[l].wins + pla[l].losses
             /\ pla[l].attempts >= 1

\* C22 witness: two level ids have statistics, one with a win and one with a
\* loss, and both added XP
C22_Witness ==
    LET pla == reportData.perLevelAnalytics
    IN /\ Cardinality(DOMAIN pla) = 2
       /\ \E l \in DOMAIN pla : pla[l].wins = 1
       /\ \E l \in DOMAIN pla : pla[l].losses = 1
       /\ reportData.xpEarnedTotal = 2

\* C14: between one initialize/reset and the next, no step makes
\* xpEarnedTotal smaller than it was, whatever xp endLevel is given.
C14_XpNeverDecreases ==
    [][hLast'.op \notin {"initialize", "reset"} =>
          reportData'.xpEarnedTotal >= reportData.xpEarnedTotal]_vars

\* the structure the latest getReportData call returned
NewestHeld(h) == h[Len(h)]

\* C15: getReportData does not change the store; two consecutive calls
\* return equal structures; a change made to a returned structure changes
\* neither the store nor any other returned structure.
C15_ReportDataIndependent ==
    [][/\ hLast'.op = "getReportData" =>
            /\ UNCHANGED <<isInitialized, ident, reportData>>
            /\ hLast.op = "getReportData" =>
                   NewestHeld(held').value = NewestHeld(held).value
       /\ hLast'.op = "callerMutates" =>
            /\ UNCHANGED <<isInitialized, ident, reportData>>
            /\ held'[hLast'.args.index].value # held[hLast'.args.index].value
            /\ \A j \in DOMAIN held :
                  j # hLast'.args.index => held'[j].value = held[j].value
      ]_vars

\* C15 witness: the caller holds two structures read from a store with a
\* Level Entry and has pushed onto the levels array of the first one only
C15_Witness ==
    /\ hLast.op = "callerMutates"
    /\ hLast.args = [index |-> 1, part |-> "levels"]
    /\ Len(held) = 2
    /\ Len(held[1].value.diagnostics.levels) = 2
    /\ Len(held[2].value.diagnostics.levels) = 1
    /\ Len(reportData.diagnostics.levels) = 1

\* C21: one timeout of the game timer causes at most one endLevel(levelId,
\* false, ...) call and at most one submitReport call on the store, however
\* many polling callbacks are running.
C21_TimeoutReportedOnce ==
    /\ hTimeout.ends <= 1
    /\ hTimeout.submits <= 1

(***************************************************************************)
(* Properties of the delivery dispatcher                                   *)
(***************************************************************************)
\* some channel call of the log completed without throwing
Delivered(log) == \E i \in DOMAIN log : log[i].ok

\* the latest step was a submitReport call that produced a payload in a
\* delivery environment
Submitted == hLast.op = "submitReport" /\ isInitialized /\ window

\* C5: with working storage, a submitReport for which no channel delivers
\* appends exactly that submission's payload to the tail of the pending queue
\* and keeps the earlier entries in place; one for which a channel delivers
\* leaves the queue unchanged.
C5_QueueOnlyUndelivered ==
    (Submitted /\ hLast.args.st = "ok") =>
        IF Delivered(sendLog)
        THEN storage = hLast.args.before
        ELSE storage = Append(hLast.args.before, JsonClone(reportData))

\* C5 witness: a channel was tried and threw, and the payload went behind an
\* earlier, different entry
C5_Witness ==
    /\ Submitted
    /\ hLast.args.st = "ok"
    /\ sendLog # << >>
    /\ ~Delivered(sendLog)
    /\ Len(hLast.args.before) = 1
    /\ Len(storage) = 2
    /\ storage[1] # storage[2]

\* the payload a channel call carries
PayloadOf(call) == IF call.ch = "webview" THEN call.arg.json ELSE call.arg

\* the payloads handed to channel c by the latest handler, in call order
PayloadsTo(c) ==
    LET calls == SelectSeq(sendLog, LAMBDA x : x.ch = c)
    IN [i \in 1..Len(calls) |-> PayloadOf(calls[i])]

\* the latest handler attempted delivery once for every entry of the queue
\* it found, in queue order
AttemptedAll == \A c \in channels : PayloadsTo(c) = hLast.args.before

\* C6 (as claimed): a flush of a non-empty pending queue runs the delivery
\* attempt once for every queued entry, in queue order, and leaves the queue
\* empty whether or not the attempts delivered.
C6_FlushDrainsQueue ==
    (hLast.op = "flushPending" /\ hLast.args.before # << >>) =>
        /\ AttemptedAll
        /\ storage = << >>

\* C6 (amended): a flush of a non-empty pending queue whose storage read
\* succeeds runs the delivery attempt once for every queued entry, in queue
\* order, and, when the removal succeeds too, leaves the queue empty whether
\* or not the attempts delivered.
C6_FlushDrainsReadableQueue ==
    (/\ hLast.op = "flushPending"
     /\ hLast.args.before # << >>
     /\ hLast.args.st # "readThrows") =>
        /\ AttemptedAll
        /\ hLast.args.st = "ok" => storage = << >>

\* C6 witness: a flush of two different entries, the first delivered, the
\* second not
C6_Witness ==
    /\ hLast.op = "flushPending"
    /\ hLast.args.st = "ok"
    /\ Len(hLast.args.before) = 2
    /\ hLast.args.before[1] # hLast.args.before[2]
    /\ Len(sendLog) = 2
    /\ sendLog[1].ok
    /\ ~sendLog[2].ok
    /\ storage = << >>

\* the entries of a queue, as a set
Entries(q) == {q[i] : i \in DOMAIN q}

\* C16: the payload of a submitReport call is the store's report at that
\* moment, with the refreshed timestamp; no later store operation changes a
\* payload in the pending queue, a later submission only adds behind it, and
\* a flush hands the channels the payloads as they were queued.
C16_PayloadImmutable ==
    [][/\ (hLast'.op = "submitReport" /\ isInitialized) =>
            /\ \A i \in DOMAIN sendLog' :
                  PayloadOf(sendLog'[i]) = JsonClone(reportData')
            /\ ~Delivered(sendLog') =>
                  storage' = Append(storage, JsonClone(reportData'))
       /\ hLast'.op = "submitReport" =>
            /\ Len(storage') >= Len(storage)
            /\ \A i \in DOMAIN storage : storage'[i] = storage[i]
       /\ hLast'.op \notin {"submitReport", "flushPending"} =>
            storage' = storage
       /\ hLast'.op = "flushPending" =>
            \A i \in DOMAIN sendLog' :
               PayloadOf(sendLog'[i]) \in Entries(storage)
      ]_vars

\* C16 witness: a flush hands a channel a payload that was queued before the
\* store's level history changed, with the timestamp of its submission
C16_Witness ==
    /\ hLast.op = "flushPending"
    /\ sendLog # << >>
    /\ PayloadOf(sendLog[1]).diagnostics.levels = << >>
    /\ PayloadOf(sendLog[1]).timestamp = ToISOString(1)
    /\ reportData.diagnostics.levels # << >>

\* some payload was handed, without a throw, to one channel more than once
Duplicate ==
    \E i, j \in DOMAIN hReceived : i < j /\ hReceived[i] = hReceived[j]

\* every submission allowed has been made, every delayed flush has run, and
\* a flush has handed out a payload that was queued
RunComplete ==
    /\ listeners["online"] = MaxSubmits
    /\ timers = 0
    /\ Idle
    /\ hLast.op = "flushPending"
    /\ hReceived # << >>
    /\ hLast.args.before # << >>

Dropped ==
    {hReceived[i].payload : i \in {j \in DOMAIN hReceived : hReceived[j].ch = "dropped"}}

\* C18: submitReport and every flush trigger return normally whatever the
\* channels and the storage do. A submission changes nothing of the store but
\* the timestamp; a flush changes nothing of it. A payload that was neither
\* delivered nor stored is dropped: it is in no queue, and no flush hands it
\* to a channel afterwards.
C18_FailuresAbsorbed ==
    [][/\ hLast'.op = "submitReport" =>
            /\ returned' = << >>
            /\ isInitialized' = isInitialized
            /\ ident' = ident
            /\ [reportData' EXCEPT !.timestamp = reportData.timestamp] = reportData
            /\ (isInitialized /\ ~hLast'.args.ok /\ hLast'.args.st # "ok") =>
                  /\ storage' = storage
                  /\ JsonClone(reportData') \in Dropped'
       /\ hLast'.op = "flushPending" =>
            /\ UNCHANGED storeVars
            /\ \A i \in DOMAIN sendLog' : PayloadOf(sendLog'[i]) \notin Dropped
       /\ Dropped' \cap Entries(storage') = {}
      ]_vars

\* a payload was dropped, and a later flush handed out another one that a
\* channel refused
C18_Witness ==
    /\ Dropped # {}
    /\ hLast.op = "flushPending"
    /\ hLast.args.before # << >>
    /\ \E i \in DOMAIN sendLog : ~sendLog[i].ok

\* C20: with working storage and timers that fire, a pending queue that is
\* not empty has a delayed flush scheduled, and a flush eventually leaves it
\* empty: every payload appended to the queue is eventually removed from it.
C20_QueueEventuallyEmpty ==
    /\ [](storage # << >> => timers > 0)
    /\ (storage # << >>) ~> (storage = << >>)

\* C20 witness: no window event was ever dispatched, and the delayed flush
\* found payloads in the queue and left it empty
C20_Witness ==
    /\ dispatch.event = ""
    /\ hLast.op = "flushPending"
    /\ hLast.args.before # << >>
    /\ storage = << >>

\* the channels the host offers, in the order of trySend
PresentInOrder ==
    SelectSeq(<<"site", "webview", "parent">>, LAMBDA c : c \in channels)

\* C7: one delivery attempt calls every present channel, in the order
\* site-local bridge, embedding bridge, parent post, whatever succeeded or
\* threw before, and its result is success iff some call did not throw.
C7_EveryChannelTried ==
    Submitted =>
        /\ [i \in 1..Len(sendLog) |-> sendLog[i].ch] = PresentInOrder
        /\ hLast.args.ok <=> Delivered(sendLog)

\* C7 witness: three channels; the first threw, the second delivered, the
\* third threw
C7_Witness ==
    /\ Submitted
    /\ Len(sendLog) = 3
    /\ ~sendLog[1].ok
    /\ sendLog[2].ok
    /\ ~sendLog[3].ok
    /\ hLast.args.ok

\* C8: however many submitReport calls were made, exactly one flush handler is
\* attached to each of the 'online' and 'load' signals, so one occurrence of
\* the signal runs the flush once.
C8_OneHandlerPerSignal ==
    /\ \A e \in Events : listeners[e] <= 1
    /\ dispatch.left <= 1

\* C9: every parent-context post, by a submission or a flush, is targeted at
\* the parentOrigin of the latest handshake that arrived before it, and at the
\* wildcard only if none has arrived.
C9_PostsTargetLatestHandshake ==
    hLast.op \in {"submitReport", "flushPending"} =>
        \A i \in DOMAIN sendLog :
            sendLog[i].ch = "parent" =>
                sendLog[i].target = IF hShake # "" THEN hShake ELSE Wildcard

\* C10: submitReport before initialize returns nothing, makes no channel
\* attempt, leaves the report and the pending queue unchanged and registers
\* no flush trigger or timer.
C10_SubmitBeforeInitialize ==
    [][(hLast'.op = "submitReport" /\ ~isInitialized) =>
          /\ returned' = << >>
          /\ sendLog' = << >>
          /\ UNCHANGED <<isInitialized, ident, reportData, storage, listeners,
                         timers, parentOrigin, dispatch>>]_vars

\* C10 witness: submitReport was called in a browser window before initialize
C10_Witness ==
    /\ hLast.op = "submitReport"
    /\ ~isInitialized
    /\ window
    /\ channels # {}

====
